---- MODULE Spec2Model ----
(***************************************************************************)
(* Model of backend/dialplan.py, the generator of Asterisk's               *)
(* extensions.conf.  The generated text is kept as a sequence of dialplan  *)
(* instructions (one per " same => n,..." line); strings that the code     *)
(* interpolates (extensions, DIDs, destinations) are sequences of          *)
(* character codes, so that Python's string order can be computed.         *)
(***************************************************************************)
EXTENDS Integers, Sequences, FiniteSets, TLC

VARIABLES
    forwards,      \* List[CallForward]
    mailboxes,     \* List[VoicemailMailbox]
    routes,        \* List[InboundRoute]
    peers,         \* List[SIPPeer]
    trunks,        \* List[SIPTrunk]
    extension,     \* _generate_dial_logic's argument
    ring_time,     \* _generate_dial_logic's argument
    early_answer,  \* _generate_dial_logic's argument
    lines,         \* the block returned by _generate_dial_logic
    outbound,      \* the dict returned by _build_outbound_map, in insertion order
    config,        \* the text returned by generate_extensions_config, as entries
    phase,         \* "input", then "generated" or "mapped", then "call"
    chan,          \* a call walking through a block: position, channel variables, path
    io             \* write_extensions_config and reload_dialplan: position, file, results

vars == <<forwards, mailboxes, routes, peers, trunks, extension, ring_time,
          early_answer, lines, outbound, config, phase, chan, io>>

---------------------------------------------------------------------------
(* Bounds of the model *)

MaxForwards == 3
MaxConfigForwards == 2
MaxMailboxes == 2
MaxRoutes == 2
MaxOutboundRoutes == 3
MaxPeers == 1

---------------------------------------------------------------------------
(* Strings: sequences of character codes *)

\* Python's None, where an object, an int or a str is expected
None == [none |-> TRUE]
NoneInt == -1
NoneStr == <<0>>

\* "1001", "1002", "200", "100": extensions
Ext1001 == <<49, 48, 48, 49>>
Ext1002 == <<49, 48, 48, 50>>
Ext200 == <<50, 48, 48>>
Ext100 == <<49, 48, 48>>
\* "${EXTEN}", the channel variable the generic pattern dials
ExtenVar == <<36, 123, 69, 88, 84, 69, 78, 125>>
\* "0171", "0172": forward destinations
Dest0171 == <<48, 49, 55, 49>>
Dest0172 == <<48, 49, 55, 50>>
\* "4912340", "4912341": DIDs
Did4912340 == <<52, 57, 49, 50, 51, 52, 48>>
Did4912341 == <<52, 57, 49, 50, 51, 52, 49>>
\* the patterns of the fixed entries
PatS == <<115>>
Pat1XXX == <<95, 49, 88, 88, 88>>
Pat0X == <<95, 48, 88, 46>>
PatPlusX == <<95, 43, 88, 46>>
PatX == <<95, 88, 46>>
PatCatchAll == <<95, 91, 43, 48, 45, 57, 93, 46>>
PatStar98 == <<42, 57, 56>>
PatStar97 == <<95, 42, 57, 55, 88, 88, 88, 88>>
PatStar43 == <<42, 52, 51>>
\* "localhost", "sip.a"
Localhost == <<108, 111, 99, 97, 108, 104, 111, 115, 116>>
SipA == <<115, 105, 112, 46, 97>>
\* "alice": a P-Asserted-Identity user part
PaiAlice == <<97, 108, 105, 99, 101>>

\* s < t in Python's order of str (code point by code point, a prefix first)
RECURSIVE StrLess(_, _)
StrLess(s, t) ==
    IF t = <<>> THEN FALSE
    ELSE IF s = <<>> THEN TRUE
    ELSE IF s[1] # t[1] THEN s[1] < t[1]
    ELSE StrLess(Tail(s), Tail(t))

---------------------------------------------------------------------------
(* Dialplan instructions: one record per emitted line *)

NoLabel == [name |-> "", ext |-> <<>>]
Label(n) == [name |-> n, ext |-> <<>>]
OutLabel(ext) == [name |-> "out-", ext |-> ext]

Blank == [label |-> NoLabel, app |-> "", target |-> <<>>, host |-> <<>>,
          via |-> "", tid |-> 0, secs |-> 0, opts |-> "", var |-> "",
          val |-> "", yes |-> NoLabel, no |-> NoLabel]

\* " same => n,NoOp(<text><who>)"
NoOp(lbl, text, who) ==
    [Blank EXCEPT !.label = lbl, !.app = "NoOp", !.val = text, !.target = who]
\* " same => n,Answer()"
Answer == [Blank EXCEPT !.app = "Answer"]
\* " same => n,Wait(0.5)"
Wait == [Blank EXCEPT !.app = "Wait", !.val = "0.5"]
\* " same => n,Hangup()"
Hangup == [Blank EXCEPT !.app = "Hangup"]
\* " same => n,Dial(PJSIP/<who>,<secs>,tTr)"
DialDevice(who, secs) ==
    [Blank EXCEPT !.app = "Dial", !.target = who, !.secs = secs, !.opts = "tTr"]
\* " same => n,Dial(PJSIP/<who>@trunk,<secs>,tT)"
DialTrunk(who, secs) ==
    [Blank EXCEPT !.app = "Dial", !.target = who, !.via = "trunk",
                  !.secs = secs, !.opts = "tT"]
\* " same => n,Dial(PJSIP/${EXTEN}@trunk-ep-<tid>,120,tT)"
DialTrunkEp(tid, secs) ==
    [Blank EXCEPT !.app = "Dial", !.target = ExtenVar, !.via = "trunk-ep-",
                  !.tid = tid, !.secs = secs, !.opts = "tT"]
\* " same => n(<lbl>),VoiceMail(<who>@default,<greeting>)"
VoiceMail(lbl, who, greeting) ==
    [Blank EXCEPT !.label = lbl, !.app = "VoiceMail", !.target = who,
                  !.opts = greeting]
\* " same => n,Set(DEVICE_STATE=${DEVICE_STATE(PJSIP/<who>)})"
SetDeviceState(who) ==
    [Blank EXCEPT !.app = "Set", !.var = "DEVICE_STATE", !.target = who]
\* " same => n,GotoIf($["${<var>}" = "<val>"]?<yes>[:<no>])"
GotoIf(var, val, yes, no) ==
    [Blank EXCEPT !.app = "GotoIf", !.var = var, !.val = val, !.yes = yes,
                  !.no = no]

---------------------------------------------------------------------------
(* dict helpers *)

\* d.get(k): None when the key is absent
Get(d, k) == IF k \in DOMAIN d THEN d[k] ELSE None
\* d[k] = v
Put(d, k, v) == [x \in DOMAIN d \cup {k} |-> IF x = k THEN v ELSE d[x]]
EmptyDict == [x \in {} |-> None]

---------------------------------------------------------------------------
(* _build_forward_map *)

RECURSIVE BuildForwardMapLoop(_, _)
BuildForwardMapLoop(fwds, fwd_map) ==
    IF fwds = <<>> THEN fwd_map
    ELSE LET fwd == Head(fwds)
             m1 == IF fwd.extension \notin DOMAIN fwd_map
                   THEN Put(fwd_map, fwd.extension, EmptyDict)
                   ELSE fwd_map
             m2 == Put(m1, fwd.extension,
                       Put(m1[fwd.extension], fwd.forward_type, fwd))
         IN BuildForwardMapLoop(Tail(fwds), m2)

_build_forward_map(fwds) == BuildForwardMapLoop(fwds, EmptyDict)

---------------------------------------------------------------------------
(* _generate_dial_logic *)

\* the forward destination block of an unconditional forward
CfuLines(cfu, rt, ea) ==
    <<NoOp(NoLabel, "CFU active: forwarding to ", cfu.destination)>>
    \o (IF ea THEN <<Answer, Wait>> ELSE <<>>)
    \o <<DialTrunk(cfu.destination, rt), Hangup>>

\* Answer() and Wait(0.5) ahead of the dial, for inbound trunk calls
EarlyAnswerLines(ea) == IF ea THEN <<Answer, Wait>> ELSE <<>>

\* the device-state probe and the Dial to the device
DeviceLines(ext, actual_ring) ==
    << SetDeviceState(ext),
       GotoIf("DEVICE_STATE", "UNAVAILABLE", Label("unavail"), NoLabel),
       GotoIf("DEVICE_STATE", "INVALID", Label("unavail"), NoLabel),
       DialDevice(ext, actual_ring) >>

\* busy and no_answer forwards: forward on either outcome, then voicemail
BothForwardsLines(ext, cfb, cfna) ==
    << GotoIf("DIALSTATUS", "BUSY", Label("busy"), Label("noanswer")),
       NoOp(Label("noanswer"), "CFNA: forwarding to ", cfna.destination),
       DialTrunk(cfna.destination, 30),
       VoiceMail(NoLabel, ext, "u"),
       Hangup,
       NoOp(Label("busy"), "CFB: forwarding to ", cfb.destination),
       DialTrunk(cfb.destination, 30),
       VoiceMail(NoLabel, ext, "b"),
       Hangup >>

\* busy forward only
BusyForwardLines(ext, cfb) ==
    << GotoIf("DIALSTATUS", "BUSY", Label("busy"), Label("unavail")),
       VoiceMail(Label("unavail"), ext, "u"),
       Hangup,
       NoOp(Label("busy"), "CFB: forwarding to ", cfb.destination),
       DialTrunk(cfb.destination, 30),
       VoiceMail(NoLabel, ext, "b"),
       Hangup >>

\* no_answer forward only
NoAnswerForwardLines(ext, cfna) ==
    << GotoIf("DIALSTATUS", "BUSY", Label("busy"), Label("noanswer")),
       NoOp(Label("noanswer"), "CFNA: forwarding to ", cfna.destination),
       DialTrunk(cfna.destination, 30),
       VoiceMail(NoLabel, ext, "u"),
       Hangup,
       VoiceMail(Label("busy"), ext, "b"),
       Hangup >>

\* a bug: the Hangup() after the unavailable greeting is missing
NoForwardLines_NoHangup(ext) ==
    << GotoIf("DIALSTATUS", "BUSY", Label("busy"), Label("unavail")),
       VoiceMail(Label("unavail"), ext, "u"),
       VoiceMail(Label("busy"), ext, "b"),
       Hangup >>

\* no forwarding: the standard voicemail fallback
NoForwardLines(ext) ==
    << GotoIf("DIALSTATUS", "BUSY", Label("busy"), Label("unavail")),
       VoiceMail(Label("unavail"), ext, "u"),
       Hangup,
       VoiceMail(Label("busy"), ext, "b"),
       Hangup >>

\* a bug: the busy forward is taken whenever one exists, whatever DIALSTATUS
AfterDialLines_BusyFirst(ext, cfb, cfna) ==
    IF cfb # None
    THEN <<GotoIf("DIALSTATUS", "BUSY", Label("busy"), Label("busy"))>>
         \o Tail(BusyForwardLines(ext, cfb))
    ELSE IF cfna # None THEN NoAnswerForwardLines(ext, cfna)
    ELSE NoForwardLines(ext)

\* the branch on DIALSTATUS and what follows it
AfterDialLines(ext, cfb, cfna) ==
    IF cfb # None /\ cfna # None THEN BothForwardsLines(ext, cfb, cfna)
    ELSE IF cfb # None THEN BusyForwardLines(ext, cfb)
    ELSE IF cfna # None THEN NoAnswerForwardLines(ext, cfna)
    ELSE NoForwardLines(ext)

\* a bug: the no_answer forward's ring time is not used
_generate_dial_logic_SuppliedRing(ext, fwd_map, rt, ea) ==
    LET fwds == IF ext \in DOMAIN fwd_map THEN fwd_map[ext] ELSE EmptyDict
        cfu == Get(fwds, "unconditional")
        cfb == Get(fwds, "busy")
        cfna == Get(fwds, "no_answer")
    IN IF cfu # None THEN CfuLines(cfu, rt, ea)
       ELSE EarlyAnswerLines(ea) \o DeviceLines(ext, rt)
            \o AfterDialLines(ext, cfb, cfna)

\* a bug: no return after the unconditional forward's lines
_generate_dial_logic_NoReturn(ext, fwd_map, rt, ea) ==
    LET fwds == IF ext \in DOMAIN fwd_map THEN fwd_map[ext] ELSE EmptyDict
        cfu == Get(fwds, "unconditional")
        cfb == Get(fwds, "busy")
        cfna == Get(fwds, "no_answer")
        actual_ring == IF cfna # None THEN cfna.ring_time ELSE rt
    IN (IF cfu # None THEN CfuLines(cfu, rt, ea) ELSE <<>>)
       \o EarlyAnswerLines(ea) \o DeviceLines(ext, actual_ring)
       \o AfterDialLines(ext, cfb, cfna)

_generate_dial_logic(ext, fwd_map, rt, ea) ==
    LET fwds == IF ext \in DOMAIN fwd_map THEN fwd_map[ext] ELSE EmptyDict
        cfu == Get(fwds, "unconditional")
        cfb == Get(fwds, "busy")
        cfna == Get(fwds, "no_answer")
        actual_ring == IF cfna # None THEN cfna.ring_time ELSE rt
    IN IF cfu # None THEN CfuLines(cfu, rt, ea)
       ELSE EarlyAnswerLines(ea) \o DeviceLines(ext, actual_ring)
            \o AfterDialLines(ext, cfb, cfna)

---------------------------------------------------------------------------
(* _build_outbound_map *)

\* Python's truth value of an Optional[str] and of an Optional[int]
TruthyStr(x) == x # NoneStr /\ x # <<>>
TruthyInt(x) == x # NoneInt /\ x # 0

RECURSIVE BuildPeerMapLoop(_, _)
BuildPeerMapLoop(ps, peer_map) ==
    IF ps = <<>> THEN peer_map
    ELSE BuildPeerMapLoop(Tail(ps), Put(peer_map, Head(ps).extension, Head(ps)))

\* routes_by_ext as a list of (ext, routes of ext) in order of insertion
RECURSIVE RoutesByExtLoop(_, _)
RoutesByExtLoop(rs, routes_by_ext) ==
    IF rs = <<>> THEN routes_by_ext
    ELSE LET route == Head(rs)
             ext == route.destination_extension
             at == {i \in 1..Len(routes_by_ext) : routes_by_ext[i].ext = ext}
             added == IF at = {}
                      THEN Append(routes_by_ext, [ext |-> ext, routes |-> <<route>>])
                      ELSE [i \in 1..Len(routes_by_ext) |->
                              IF i \in at
                              THEN [routes_by_ext[i] EXCEPT
                                      !.routes = Append(@, route)]
                              ELSE routes_by_ext[i]]
         IN RoutesByExtLoop(Tail(rs), added)

\* a bug: no break, the last route whose DID is outbound_cid is selected
SelectRoute_NoBreak(ext_routes, peer) ==
    LET hits == {i \in 1..Len(ext_routes) : ext_routes[i].did = peer.outbound_cid}
    IN IF peer # None /\ TruthyStr(peer.outbound_cid) /\ hits # {}
       THEN ext_routes[CHOOSE i \in hits : \A j \in hits : j <= i]
       ELSE ext_routes[1]

\* the first route, or the first one whose DID is the peer's outbound_cid
SelectRoute(ext_routes, peer) ==
    LET hits == {i \in 1..Len(ext_routes) : ext_routes[i].did = peer.outbound_cid}
    IN IF peer # None /\ TruthyStr(peer.outbound_cid) /\ hits # {}
       THEN ext_routes[CHOOSE i \in hits : \A j \in hits : i <= j]
       ELSE ext_routes[1]

_build_outbound_map(rs, ps) ==
    LET peer_map == BuildPeerMapLoop(ps, EmptyDict)
        routes_by_ext == RoutesByExtLoop(rs, <<>>)
    IN [i \in 1..Len(routes_by_ext) |->
          LET ext == routes_by_ext[i].ext
              peer == Get(peer_map, ext)
          IN [ext |-> ext,
              route |-> SelectRoute(routes_by_ext[i].routes, peer),
              pai |-> IF peer # None THEN peer.pai ELSE NoneStr]]

---------------------------------------------------------------------------
(* _build_ring_timeout_map *)

RECURSIVE BuildRingTimeoutMapLoop(_, _)
BuildRingTimeoutMapLoop(mbs, m) ==
    IF mbs = <<>> THEN m
    ELSE LET mb == Head(mbs)
         IN BuildRingTimeoutMapLoop(Tail(mbs),
               Put(m, mb.extension,
                   IF TruthyInt(mb.ring_timeout) THEN mb.ring_timeout ELSE 20))

_build_ring_timeout_map(mbs) == BuildRingTimeoutMapLoop(mbs, EmptyDict)

---------------------------------------------------------------------------
(* generate_extensions_config: the text as a list of entries, one per       *)
(* "exten => <pat>,1,..." line, each with the lines up to the next entry    *)

Entry(ctx, pat, body) == [ctx |-> ctx, pat |-> pat, body |-> body]

\* " same => n,Set(CALLERID(name)=${CALLERID(name)})"
SetCallerIdName ==
    [Blank EXCEPT !.app = "Set", !.var = "CALLERID(name)",
                  !.val = "${CALLERID(name)}"]
\* " same => n,Set(CALLERID(num)=<did>)"
SetCallerIdNum(did) ==
    [Blank EXCEPT !.app = "Set", !.var = "CALLERID(num)", !.target = did]
\* " same => n,Set(PJSIP_HEADER(add,P-Asserted-Identity)=<sip:<pai>@<domain>>)"
SetPai(pai, domain) ==
    [Blank EXCEPT !.app = "Set", !.var = "PJSIP_HEADER(add,P-Asserted-Identity)",
                  !.target = pai, !.host = domain]
\* " same => n,GotoIf($["${CHANNEL(endpoint)}x" = "<ext>x"]?out-<ext>)"
GotoIfEndpoint(ext) ==
    [Blank EXCEPT !.app = "GotoIf", !.var = "CHANNEL(endpoint)", !.target = ext,
                  !.yes = OutLabel(ext)]
\* a line of the fixed text
Fixed(app, text) == [Blank EXCEPT !.app = app, !.val = text]

\* a bug: the extensions are ordered as numbers, the shorter first
RECURSIVE Sorted_AsNumbers(_)
Sorted_AsNumbers(S) ==
    IF S = {} THEN <<>>
    ELSE LET least == CHOOSE x \in S : \A y \in S \ {x} :
                          \/ Len(x) < Len(y)
                          \/ Len(x) = Len(y) /\ StrLess(x, y)
         IN <<least>> \o Sorted_AsNumbers(S \ {least})

\* sorted(): ascending in Python's order of str
RECURSIVE Sorted(_)
Sorted(S) ==
    IF S = {} THEN <<>>
    ELSE LET least == CHOOSE x \in S : \A y \in S \ {x} : StrLess(x, y)
         IN <<least>> \o Sorted(S \ {least})

\* the extensions that get an entry of their own
OverrideExtensions(fwd_map, ring_timeout_map) ==
    DOMAIN fwd_map \cup {ext \in DOMAIN ring_timeout_map : ring_timeout_map[ext] # 20}

\* "exten => _1XXX,1,..." with the dial logic of ${EXTEN}
InternalEntry ==
    Entry("internal", Pat1XXX,
          <<Fixed("NoOp", "Internal Call from ${CALLERID(all)} to ${EXTEN}"),
            SetCallerIdName>>
          \o _generate_dial_logic(ExtenVar, EmptyDict, 20, FALSE))

\* "exten => <ext>,1,NoOp(Call to <ext> with forwarding)" and its dial logic
OverrideEntry(ext, fwd_map, ring_timeout_map) ==
    LET ext_ring == IF ext \in DOMAIN ring_timeout_map
                    THEN ring_timeout_map[ext] ELSE 20
    IN Entry("internal", ext,
             <<NoOp(NoLabel, "Call to ", ext), SetCallerIdName>>
             \o _generate_dial_logic(ext, fwd_map, ext_ring, FALSE))

OverrideEntries(fwd_map, ring_timeout_map) ==
    LET exts == Sorted(OverrideExtensions(fwd_map, ring_timeout_map))
    IN [i \in 1..Len(exts) |-> OverrideEntry(exts[i], fwd_map, ring_timeout_map)]

\* a bug: the header's domain is always localhost
OutboundBlock_LocalDomain(info, trunk_map) ==
    LET route == info.route
        tid == route.trunk_id
    IN <<[NoOp(OutLabel(info.ext), "Outbound via trunk-ep-", route.did)
             EXCEPT !.tid = tid],
         SetCallerIdNum(route.did)>>
       \o (IF TruthyStr(info.pai) THEN <<SetPai(info.pai, Localhost)>> ELSE <<>>)
       \o <<DialTrunkEp(tid, 120), Hangup>>

\* the lines labelled out-<ext> of one extension of the outbound map
OutboundBlock(info, trunk_map) ==
    LET route == info.route
        tid == route.trunk_id
        trunk == Get(trunk_map, tid)
        pai_domain == IF trunk # None THEN trunk.sip_server ELSE Localhost
    IN <<[NoOp(OutLabel(info.ext), "Outbound via trunk-ep-", route.did)
             EXCEPT !.tid = tid],
         SetCallerIdNum(route.did)>>
       \o (IF TruthyStr(info.pai) THEN <<SetPai(info.pai, pai_domain)>> ELSE <<>>)
       \o <<DialTrunkEp(tid, 120), Hangup>>

RECURSIVE Flatten(_)
Flatten(ss) == IF ss = <<>> THEN <<>> ELSE Head(ss) \o Flatten(Tail(ss))

\* "exten => _0X.,1,..." or "exten => _+X.,1,...": the match on the endpoint,
\* the no-service announcement, the blocks of the extensions
OutboundEntry(pat, first, outbound_map, trunk_map, announce) ==
    Entry("internal", pat,
          <<first>>
          \o [i \in 1..Len(outbound_map) |-> GotoIfEndpoint(outbound_map[i].ext)]
          \o announce
          \o <<Fixed("Playback", "ss-noservice"), Hangup>>
          \o Flatten([i \in 1..Len(outbound_map) |->
                         OutboundBlock(outbound_map[i], trunk_map)]))

OutboundEntries(outbound_map, trunk_map) ==
    IF outbound_map # <<>>
    THEN <<OutboundEntry(Pat0X,
              Fixed("NoOp", "Outbound call from ${CHANNEL(endpoint)} to ${EXTEN}"),
              outbound_map, trunk_map,
              <<Fixed("NoOp", "No outbound route for this extension")>>),
           OutboundEntry(PatPlusX,
              Fixed("NoOp", "Outbound intl call from ${CHANNEL(endpoint)} to ${EXTEN}"),
              outbound_map, trunk_map, <<>>)>>
    ELSE <<>>

\* *98, _*97XXXX and *43
UtilityEntries ==
    <<Entry("internal", PatStar98,
            <<Fixed("NoOp", "Voicemail Access for ${CALLERID(num)}"), Answer, Wait,
              Fixed("VoiceMailMain", "${CALLERID(num)}@default"), Hangup>>),
      Entry("internal", PatStar97,
            <<Fixed("NoOp", "Direct Voicemail for ${EXTEN:3}"), Answer, Wait,
              Fixed("VoiceMail", "${EXTEN:3}@default"), Hangup>>),
      Entry("internal", PatStar43, <<Answer, Fixed("Echo", ""), Hangup>>)>>

\* "exten => s,1,...": the DID is taken from the To header
HeaderFallbackEntry ==
    Entry("from-trunk", PatS,
          <<Fixed("NoOp", "Inbound call with no DID in Request-URI"),
            Fixed("Set", "TO_HDR=${PJSIP_HEADER(read,To)}"),
            Fixed("Set", "DID=${CUT(CUT(TO_HDR,@,1),:,2)}"),
            Fixed("NoOp", "Extracted DID: ${DID}"),
            Fixed("GotoIf", "$[${LEN(${DID})} > 0]?from-trunk,${DID},1"),
            Fixed("NoOp", "Could not extract DID from To header"),
            Hangup>>)

\* a bug: early_answer is not passed and stays False
RouteEntry_NoEarlyAnswer(route, fwd_map, ring_timeout_map) ==
    LET ext == route.destination_extension
        ext_ring == IF ext \in DOMAIN ring_timeout_map
                    THEN ring_timeout_map[ext] ELSE 20
    IN Entry("from-trunk", route.did,
             <<NoOp(NoLabel, "Inbound call to DID ", route.did), SetCallerIdName>>
             \o _generate_dial_logic(ext, fwd_map, ext_ring, FALSE))

\* "exten => <did>,1,NoOp(Inbound call to DID <did>)" and the dial logic of
\* the route's extension, answered early
RouteEntry(route, fwd_map, ring_timeout_map) ==
    LET ext == route.destination_extension
        ext_ring == IF ext \in DOMAIN ring_timeout_map
                    THEN ring_timeout_map[ext] ELSE 20
    IN Entry("from-trunk", route.did,
             <<NoOp(NoLabel, "Inbound call to DID ", route.did), SetCallerIdName>>
             \o _generate_dial_logic(ext, fwd_map, ext_ring, TRUE))

\* a bug: the _X. entry is emitted after the routes' entries too
InboundEntries_AlwaysX(rs, fwd_map, ring_timeout_map) ==
    [i \in 1..Len(rs) |-> RouteEntry(rs[i], fwd_map, ring_timeout_map)]
    \o <<Entry("from-trunk", PatX,
                <<Fixed("NoOp", "Unrouted inbound call to ${EXTEN}"), Hangup>>)>>

\* one entry per route, or "exten => _X.,1,..." when there is none
InboundEntries(rs, fwd_map, ring_timeout_map) ==
    IF rs # <<>>
    THEN [i \in 1..Len(rs) |-> RouteEntry(rs[i], fwd_map, ring_timeout_map)]
    ELSE <<Entry("from-trunk", PatX,
                 <<Fixed("NoOp", "Unrouted inbound call to ${EXTEN}"), Hangup>>)>>

\* "exten => _[+0-9].,1,...": unmatched DIDs
CatchAllEntry ==
    Entry("from-trunk", PatCatchAll,
          <<Fixed("NoOp", "Unmatched inbound DID ${EXTEN}"), Hangup>>)

RECURSIVE BuildTrunkMapLoop(_, _)
BuildTrunkMapLoop(ts, trunk_map) ==
    IF ts = <<>> THEN trunk_map
    ELSE BuildTrunkMapLoop(Tail(ts), Put(trunk_map, Head(ts).id, Head(ts)))

generate_extensions_config(rs, fwds, mbs, ps, ts) ==
    LET fwd_map == _build_forward_map(fwds)
        outbound_map == _build_outbound_map(rs, ps)
        trunk_map == BuildTrunkMapLoop(ts, EmptyDict)
        ring_timeout_map == _build_ring_timeout_map(mbs)
    IN <<InternalEntry>>
       \o OverrideEntries(fwd_map, ring_timeout_map)
       \o OutboundEntries(outbound_map, trunk_map)
       \o UtilityEntries
       \o <<HeaderFallbackEntry>>
       \o InboundEntries(rs, fwd_map, ring_timeout_map)
       \o <<CatchAllEntry>>

---------------------------------------------------------------------------
(* A call walking through one block: the control flow of the emitted lines. *)
(* Dial returns to the dialplan with a DIALSTATUS when the called party was *)
(* not reached; GotoIf without a false label continues with the next line.  *)

DeviceStates == {"NOT_INUSE", "UNAVAILABLE", "INVALID"}
DialStatuses == {"BUSY", "NOANSWER", "CHANUNAVAIL"}

\* ip: the line to run next; path: the lines run so far; results: the
\* DIALSTATUS of each Dial run so far; end: how the walk ended; endpoint:
\* ${CHANNEL(endpoint)}, the caller's device
Idle == [ip |-> 0, DEVICE_STATE |-> "", DIALSTATUS |-> "", path |-> <<>>,
         results |-> <<>>, end |-> "", endpoint |-> <<>>]

\* write_extensions_config is not running
NoIo == [pc |-> "", file |-> "", before |-> "", opened |-> FALSE, fault |-> "",
         ret |-> "", raised |-> "", exit |-> "", reloaded |-> ""]

\* the first line of the block carrying the label, 0 when there is none
LabelIndex(blk, lbl) ==
    LET at == {i \in 1..Len(blk) : blk[i].label = lbl}
    IN IF at = {} THEN 0 ELSE CHOOSE i \in at : \A j \in at : i <= j

\* the channel after line c.ip ran and control is at line `to`
MoveTo(c, blk, to) ==
    [c EXCEPT !.path = Append(c.path, c.ip),
              !.ip = to,
              !.end = IF to = 0 THEN "nolabel"
                      ELSE IF to > Len(blk) THEN "ranoff" ELSE ""]

Running == phase = "call" /\ chan.end = ""
Current == lines[chan.ip]
Frame == UNCHANGED <<forwards, mailboxes, routes, peers, trunks, extension,
                     ring_time, early_answer, lines, outbound, config, io>>

\* _generate_dial_logic is applied to the inputs
Synthesize ==
    /\ phase = "input"
    /\ lines' = _generate_dial_logic(extension, _build_forward_map(forwards),
                                     ring_time, early_answer)
    /\ phase' = "generated"
    /\ UNCHANGED <<forwards, mailboxes, routes, peers, trunks, extension,
                   ring_time, early_answer, outbound, config, chan, io>>

\* a call enters the block at its first line
EnterBlock ==
    /\ phase = "generated"
    /\ phase' = "call"
    /\ chan' = [Idle EXCEPT !.ip = 1,
                            !.end = IF lines = <<>> THEN "ranoff" ELSE ""]
    /\ Frame

\* NoOp, Answer, Wait, VoiceMail, Playback, Set of a caller id or header:
\* control continues with the next line
ExecPlain ==
    /\ Running
    /\ \/ Current.app \in {"NoOp", "Answer", "Wait", "VoiceMail", "Playback"}
       \/ Current.app = "Set" /\ Current.var # "DEVICE_STATE"
    /\ chan' = MoveTo(chan, lines, chan.ip + 1)
    /\ UNCHANGED phase
    /\ Frame

\* Set(DEVICE_STATE=...): the device's state is read
ExecSet ==
    /\ Running
    /\ Current.app = "Set"
    /\ Current.var = "DEVICE_STATE"
    /\ \E st \in DeviceStates :
          chan' = [MoveTo(chan, lines, chan.ip + 1) EXCEPT !.DEVICE_STATE = st]
    /\ UNCHANGED phase
    /\ Frame

\* GotoIf: to the true label, else to the false label or the next line
ExecGotoIf ==
    /\ Running
    /\ Current.app = "GotoIf"
    /\ LET holds == IF Current.var = "DEVICE_STATE"
                    THEN chan.DEVICE_STATE = Current.val
                    ELSE IF Current.var = "CHANNEL(endpoint)"
                    THEN chan.endpoint = Current.target
                    ELSE chan.DIALSTATUS = Current.val
           to == IF holds THEN LabelIndex(lines, Current.yes)
                 ELSE IF Current.no = NoLabel THEN chan.ip + 1
                 ELSE LabelIndex(lines, Current.no)
       IN chan' = MoveTo(chan, lines, to)
    /\ UNCHANGED phase
    /\ Frame

\* Dial: the called party is not reached and DIALSTATUS says why
ExecDial ==
    /\ Running
    /\ Current.app = "Dial"
    /\ \E ds \in DialStatuses :
          chan' = [MoveTo(chan, lines, chan.ip + 1)
                     EXCEPT !.DIALSTATUS = ds,
                            !.results = Append(chan.results, ds)]
    /\ UNCHANGED phase
    /\ Frame

\* Hangup(): the call ends in the block
ExecHangup ==
    /\ Running
    /\ Current.app = "Hangup"
    /\ chan' = [chan EXCEPT !.path = Append(chan.path, chan.ip),
                            !.end = "hangup"]
    /\ UNCHANGED phase
    /\ Frame

---------------------------------------------------------------------------
(* The synthesizer's inputs *)

ForwardTypes == {"unconditional", "busy", "no_answer"}
Destinations == {Dest0171, Dest0172}
ForwardRingTimes == {15}
RingTimes == {20, 45}

CallForward == [extension : {Ext1001, Ext1002}, forward_type : ForwardTypes,
                destination : Destinations, ring_time : ForwardRingTimes]

SeqsUpTo(S, n) == UNION {[1..k -> S] : k \in 0..n}

InitDial ==
    /\ forwards \in SeqsUpTo(CallForward, MaxForwards)
    /\ mailboxes = <<>> /\ routes = <<>> /\ peers = <<>> /\ trunks = <<>>
    /\ extension = Ext1001
    /\ ring_time \in RingTimes
    /\ early_answer \in BOOLEAN
    /\ lines = <<>>
    /\ outbound = <<>>
    /\ config = <<>>
    /\ phase = "input"
    /\ chan = Idle
    /\ io = NoIo

NextDial ==
    \/ Synthesize
    \/ EnterBlock
    \/ ExecPlain
    \/ ExecSet
    \/ ExecGotoIf
    \/ ExecDial
    \/ ExecHangup

Spec == InitDial /\ [][NextDial]_vars

---------------------------------------------------------------------------
(* The compiler's inputs *)

InboundRoute == [did : {Did4912340, Did4912341},
                 destination_extension : {Ext1001, Ext1002},
                 trunk_id : {1, 2}]
SIPPeer == [extension : {Ext1001, Ext1002},
            outbound_cid : {NoneStr, <<>>, Did4912340, Did4912341},
            pai : {PaiAlice}]
VoicemailMailbox == [extension : {Ext100, Ext1001},
                     ring_timeout : {NoneInt, 0, 20, 30}]
\* forward rules of extensions with and without a mailbox
ConfigForward == [extension : {Ext1001, Ext200},
                  forward_type : ForwardTypes,
                  destination : {Dest0171}, ring_time : ForwardRingTimes]
\* forward rules of an extension that routes lead to
RouteForward ==
    {f \in [extension : {Ext1001}, forward_type : ForwardTypes,
            destination : {Dest0171}, ring_time : {15, 25}] :
        f.forward_type # "no_answer" => f.ring_time = 15}

\* _build_outbound_map is applied to the routes and the peers
BuildOutboundMap ==
    /\ phase = "input"
    /\ outbound' = _build_outbound_map(routes, peers)
    /\ phase' = "mapped"
    /\ UNCHANGED <<forwards, mailboxes, routes, peers, trunks, extension,
                   ring_time, early_answer, lines, config, chan, io>>

InitOutbound ==
    /\ routes \in SeqsUpTo(InboundRoute, MaxOutboundRoutes)
    /\ peers \in SeqsUpTo(SIPPeer, MaxPeers)
    /\ forwards = <<>> /\ mailboxes = <<>> /\ trunks = <<>>
    /\ extension = <<>>
    /\ ring_time = 20
    /\ early_answer = FALSE
    /\ lines = <<>>
    /\ outbound = <<>>
    /\ config = <<>>
    /\ phase = "input"
    /\ chan = Idle
    /\ io = NoIo

SpecOutbound == InitOutbound /\ [][BuildOutboundMap]_vars

\* generate_extensions_config is applied to the five collections
Generate ==
    /\ phase = "input"
    /\ config' = generate_extensions_config(routes, forwards, mailboxes,
                                            peers, trunks)
    /\ outbound' = _build_outbound_map(routes, peers)
    /\ phase' = "generated"
    /\ UNCHANGED <<forwards, mailboxes, routes, peers, trunks, extension,
                   ring_time, early_answer, lines, chan, io>>

\* forward rules and mailboxes vary, or routes and forward rules do
InitConfig ==
    /\ \/ /\ forwards \in SeqsUpTo(ConfigForward, MaxConfigForwards)
          /\ mailboxes \in SeqsUpTo(VoicemailMailbox, MaxMailboxes)
          /\ routes = <<>>
          /\ peers = <<>>
          /\ trunks = <<>>
       \/ /\ forwards \in SeqsUpTo(RouteForward, MaxConfigForwards)
          /\ mailboxes \in {<<>>, <<[extension |-> Ext1001, ring_timeout |-> 30]>>,
                            <<[extension |-> Ext1001, ring_timeout |-> 0]>>}
          /\ routes \in SeqsUpTo(InboundRoute, MaxRoutes)
          /\ peers = <<>>
          /\ trunks = <<>>
    /\ extension = <<>>
    /\ ring_time = 20
    /\ early_answer = FALSE
    /\ lines = <<>>
    /\ outbound = <<>>
    /\ config = <<>>
    /\ phase = "input"
    /\ chan = Idle
    /\ io = NoIo

SpecConfig == InitConfig /\ [][Generate]_vars

---------------------------------------------------------------------------
(* write_extensions_config and reload_dialplan.  io.file is what           *)
(* EXTENSIONS_CONFIG_PATH holds ("absent", "old", "empty", "partial",       *)
(* "new"), io.fault the step in which an exception was raised, io.ret and   *)
(* io.reloaded the values returned, io.raised an exception that left the    *)
(* function.                                                                *)

\* routes=None: "for route in routes" raises TypeError
NoneList == <<None>>

\* a bug: the handler raises again
Caught_Reraise(i, step) ==
    [i EXCEPT !.pc = "returned", !.fault = step, !.raised = "Exception"]

\* except Exception: logger.error(...); return False
Caught(i, step) ==
    [i EXCEPT !.pc = "returned", !.fault = step, !.ret = "False"]

IoFrame == UNCHANGED <<forwards, mailboxes, routes, peers, trunks, extension,
                       ring_time, early_answer, lines, outbound, phase, chan>>

\* config_content = generate_extensions_config(...)
WriteGenerate ==
    /\ io.pc = "generate"
    /\ IF routes = NoneList
       THEN io' = Caught(io, "generate") /\ UNCHANGED config
       ELSE /\ config' = generate_extensions_config(routes, forwards,
                                                    mailboxes, peers, trunks)
            /\ io' = [io EXCEPT !.pc = "makedirs"]
    /\ IoFrame

\* os.makedirs(os.path.dirname(EXTENSIONS_CONFIG_PATH), exist_ok=True)
WriteMakedirs ==
    /\ io.pc = "makedirs"
    /\ \E ok \in BOOLEAN :
          io' = IF ok THEN [io EXCEPT !.pc = "open"] ELSE Caught(io, "makedirs")
    /\ UNCHANGED config
    /\ IoFrame

\* open(EXTENSIONS_CONFIG_PATH, 'w'): the file is created or truncated
WriteOpen ==
    /\ io.pc = "open"
    /\ \E ok \in BOOLEAN :
          io' = IF ok
                THEN [io EXCEPT !.pc = "write", !.opened = TRUE, !.file = "empty"]
                ELSE Caught(io, "open")
    /\ UNCHANGED config
    /\ IoFrame

\* f.write(config_content), and the file is closed
WriteWrite ==
    /\ io.pc = "write"
    /\ \/ io' = [io EXCEPT !.pc = "log", !.file = "new"]
       \/ \E left \in {"empty", "partial"} :
             io' = Caught([io EXCEPT !.file = left], "write")
    /\ UNCHANGED config
    /\ IoFrame

\* logger.info(...); return True
WriteReturn ==
    /\ io.pc = "log"
    /\ io' = [io EXCEPT !.pc = "returned", !.ret = "True"]
    /\ UNCHANGED config
    /\ IoFrame

\* reload_dialplan: subprocess.run raises, or ends with a return code
ReloadOutcomes == {"raises", "0", "1"}
reload_dialplan ==
    /\ io.pc = "returned"
    /\ \E out \in ReloadOutcomes :
          io' = [io EXCEPT !.pc = "reloaded",
                           !.exit = out,
                           !.reloaded = IF out = "0" THEN "True" ELSE "False"]
    /\ UNCHANGED config
    /\ IoFrame

InitWrite ==
    /\ routes \in SeqsUpTo(InboundRoute, MaxRoutes) \cup {NoneList}
    /\ forwards \in SeqsUpTo(RouteForward, 1)
    /\ mailboxes = <<>> /\ peers = <<>> /\ trunks = <<>>
    /\ extension = <<>>
    /\ ring_time = 20
    /\ early_answer = FALSE
    /\ lines = <<>>
    /\ outbound = <<>>
    /\ config = <<>>
    /\ phase = "input"
    /\ chan = Idle
    /\ \E was \in {"absent", "old"} :
          io = [NoIo EXCEPT !.pc = "generate", !.file = was, !.before = was]

NextWrite ==
    \/ WriteGenerate
    \/ WriteMakedirs
    \/ WriteOpen
    \/ WriteWrite
    \/ WriteReturn
    \/ reload_dialplan

SpecWrite == InitWrite /\ [][NextWrite]_vars

---------------------------------------------------------------------------
(* A device dials an external number: the call walks the _0X. or the _+X.   *)
(* entry of the generated text                                              *)

Endpoints == {Ext1001, Ext1002, Ext200}
\* routes of two extensions over two trunks, one of them without a record
OutboundRoute ==
    {[did |-> Did4912340, destination_extension |-> Ext1001, trunk_id |-> 2],
     [did |-> Did4912341, destination_extension |-> Ext1001, trunk_id |-> 1],
     [did |-> Did4912340, destination_extension |-> Ext1002, trunk_id |-> 1],
     [did |-> Did4912341, destination_extension |-> Ext1002, trunk_id |-> 2]}
\* peers with and without a caller id of their own, with and without a pai
OutboundPeer ==
    {[extension |-> Ext1001, outbound_cid |-> NoneStr, pai |-> NoneStr],
     [extension |-> Ext1001, outbound_cid |-> NoneStr, pai |-> <<>>],
     [extension |-> Ext1001, outbound_cid |-> NoneStr, pai |-> PaiAlice],
     [extension |-> Ext1001, outbound_cid |-> Did4912341, pai |-> PaiAlice]}

\* a call from a device enters one of the two outbound entries
EnterOutbound ==
    /\ phase = "generated"
    /\ \E k \in 1..Len(config), ep \in Endpoints :
          /\ config[k].ctx = "internal"
          /\ config[k].pat \in {Pat0X, PatPlusX}
          /\ lines' = config[k].body
          /\ chan' = [Idle EXCEPT !.ip = 1, !.endpoint = ep]
    /\ phase' = "call"
    /\ UNCHANGED <<forwards, mailboxes, routes, peers, trunks, extension,
                   ring_time, early_answer, outbound, config, io>>

InitOutboundCall ==
    /\ routes \in SeqsUpTo(OutboundRoute, MaxRoutes)
    /\ peers \in SeqsUpTo(OutboundPeer, MaxPeers)
    /\ trunks \in {<<>>, <<[id |-> 1, sip_server |-> SipA]>>}
    /\ forwards = <<>> /\ mailboxes = <<>>
    /\ extension = <<>>
    /\ ring_time = 20
    /\ early_answer = FALSE
    /\ lines = <<>>
    /\ outbound = <<>>
    /\ config = <<>>
    /\ phase = "input"
    /\ chan = Idle
    /\ io = NoIo

NextOutboundCall ==
    \/ Generate
    \/ EnterOutbound
    \/ ExecPlain
    \/ ExecGotoIf
    \/ ExecDial
    \/ ExecHangup

SpecOutboundCall == InitOutboundCall /\ [][NextOutboundCall]_vars

---------------------------------------------------------------------------
(* What the claims speak of, read from the inputs and from the call's path *)

\* the positions in the forwards list of the rules of one extension and type
ForwardsOf(ext, type) ==
    {i \in 1..Len(forwards) :
        forwards[i].extension = ext /\ forwards[i].forward_type = type}
HasForward(ext, type) == ForwardsOf(ext, type) # {}
\* the rule in force: the last one of the list
ActiveForward(ext, type) ==
    forwards[CHOOSE i \in ForwardsOf(ext, type) :
                 \A j \in ForwardsOf(ext, type) : j <= i]

\* the lines of the block the call has run
RanLines == {chan.path[k] : k \in 1..Len(chan.path)}
IsDeviceDial(l) == l.app = "Dial" /\ l.via = "" /\ l.target = extension
IsTrunkDial(l) == l.app = "Dial" /\ l.via = "trunk"
IsGreeting(l, g) ==
    l.app = "VoiceMail" /\ l.target = extension /\ l.opts = g
DeviceDialed == \E i \in RanLines : IsDeviceDial(lines[i])
Played(g) == \E i \in RanLines : IsGreeting(lines[i], g)
\* the trunk Dials the call has run
TrunkDialsRun == {i \in RanLines : IsTrunkDial(lines[i])}
\* the call ran exactly one trunk Dial, to the forward's destination for 30 s
ForwardedTo(fwd) ==
    /\ Cardinality(TrunkDialsRun) = 1
    /\ \A i \in TrunkDialsRun :
          lines[i].target = fwd.destination /\ lines[i].secs = 30
CountApp(app) == Cardinality({i \in 1..Len(lines) : lines[i].app = app})

---------------------------------------------------------------------------
(* C1: with no unconditional forward, a call that finds the device         *)
(* UNAVAILABLE or INVALID never runs the Dial to the device, jumps to a     *)
(* label the block defines, plays VoiceMail(<ext>@default,u) and hangs up. *)
C1_UnavailableGoesToVoicemail ==
    (/\ phase = "call"
     /\ ~HasForward(extension, "unconditional")
     /\ chan.DEVICE_STATE \in {"UNAVAILABLE", "INVALID"})
    => /\ ~DeviceDialed
       /\ chan.end # "nolabel"
       /\ chan.end # "" => chan.end = "hangup" /\ Played("u")

(* C2: with an unconditional forward the block is the notice, the optional *)
(* Answer/Wait, one Dial to the forward's destination over the trunk leg    *)
(* for the supplied ring time, and Hangup: no device-state check and no     *)
(* VoiceMail.                                                               *)
C2_UnconditionalShortCircuit ==
    (phase # "input" /\ HasForward(extension, "unconditional"))
    => LET cfu == ActiveForward(extension, "unconditional")
           n == Len(lines)
       IN /\ \A i \in 1..n :
                /\ lines[i].app \notin {"VoiceMail", "GotoIf", "Set"}
                /\ lines[i].var # "DEVICE_STATE"
          /\ n = IF early_answer THEN 5 ELSE 3
          /\ lines[1].app = "NoOp"
          /\ early_answer => lines[2] = Answer /\ lines[3] = Wait
          /\ ~early_answer => CountApp("Answer") = 0 /\ CountApp("Wait") = 0
          /\ lines[n - 1] = DialTrunk(cfu.destination, ring_time)
          /\ lines[n] = Hangup
          /\ CountApp("Dial") = 1

C2_Witness ==
    /\ phase = "call"
    /\ chan.end = "hangup"
    /\ HasForward(extension, "unconditional")
    /\ HasForward(extension, "busy")
    /\ HasForward(extension, "no_answer")
    /\ early_answer
    /\ ring_time # 30

(* C3: after the Dial to the device, a BUSY call is forwarded to the busy   *)
(* forward's destination (30 s, trunk leg) iff a busy forward exists and    *)
(* then plays the b greeting; any other call is forwarded to the no_answer  *)
(* forward's destination iff one exists and then plays the u greeting.  A   *)
(* BUSY call never plays u nor dials the no_answer destination, another     *)
(* call never plays b nor dials the busy destination.                       *)
C3_BranchOnDialStatus ==
    (/\ phase = "call"
     /\ ~HasForward(extension, "unconditional")
     /\ DeviceDialed)
    => LET busy == chan.results[1] = "BUSY"
           type == IF busy THEN "busy" ELSE "no_answer"
           mine == IF busy THEN "b" ELSE "u"
           other == IF busy THEN "u" ELSE "b"
       IN /\ ~Played(other)
          /\ ~HasForward(extension, type) => TrunkDialsRun = {}
          /\ chan.end # ""
             => /\ chan.end = "hangup"
                /\ Played(mine)
                /\ HasForward(extension, type)
                   => ForwardedTo(ActiveForward(extension, type))
          /\ (TrunkDialsRun # {} /\ HasForward(extension, type))
             => ForwardedTo(ActiveForward(extension, type))

C3_Witness ==
    /\ phase = "call"
    /\ chan.end = "hangup"
    /\ DeviceDialed
    /\ chan.results[1] = "BUSY"
    /\ HasForward(extension, "busy")
    /\ HasForward(extension, "no_answer")
    /\ Cardinality(ForwardsOf(extension, "busy")) = 2
    /\ ActiveForward(extension, "busy").destination
          # ActiveForward(extension, "no_answer").destination
    /\ ForwardedTo(ActiveForward(extension, "busy"))

(* C4: every path through a block ends by running a Hangup() of the block:  *)
(* none runs past the last line, none jumps to a label the block lacks.     *)
C4_EveryPathEndsInHangup ==
    (phase = "call" /\ chan.end # "")
    => /\ chan.end = "hangup"
       /\ lines[chan.path[Len(chan.path)]] = Hangup

(* C9: for an extension with no forward rule the block holds exactly two    *)
(* VoiceMail lines, b reached on BUSY and u on every other outcome, and     *)
(* exactly two Hangup() lines, one right after each VoiceMail.              *)
C9_DefaultFallback ==
    (/\ phase # "input"
     /\ \A t \in {"unconditional", "busy", "no_answer"} :
           ~HasForward(extension, t))
    => /\ CountApp("VoiceMail") = 2
       /\ CountApp("Hangup") = 2
       /\ \E i, j \in 1..Len(lines) - 1 :
             /\ IsGreeting(lines[i], "u") /\ lines[i + 1] = Hangup
             /\ IsGreeting(lines[j], "b") /\ lines[j + 1] = Hangup
       /\ (phase = "call" /\ chan.end # "")
          => /\ chan.end = "hangup"
             /\ IF DeviceDialed /\ chan.results[1] = "BUSY"
                THEN Played("b") /\ ~Played("u")
                ELSE Played("u") /\ ~Played("b")

C9_Witness ==
    /\ phase = "call"
    /\ chan.end = "hangup"
    /\ forwards # <<>>
    /\ \A i \in 1..Len(forwards) : forwards[i].extension # extension
    /\ DeviceDialed
    /\ chan.results[1] = "BUSY"
    /\ Played("b")

---------------------------------------------------------------------------
(* What the claims speak of, read from the inputs and from the text *)

\* the last record of a list that is about one extension, 0 when none is
LastOf(list, ext) ==
    LET at == {i \in 1..Len(list) : list[i].extension = ext}
    IN IF at = {} THEN 0 ELSE CHOOSE i \in at : \A j \in at : j <= i

\* the positions in the routes list of the routes to one extension
RoutesTo(ext) ==
    {i \in 1..Len(routes) : routes[i].destination_extension = ext}
Least(S) == CHOOSE i \in S : \A j \in S : i <= j

\* the entries of the text by kind
EntriesWhere(P(_)) == SelectSeq(config, P)
IsOverride(e) == e.ctx = "internal" /\ e.body[1].val = "Call to "
IsGeneric(e) == e.ctx = "internal" /\ e.pat = Pat1XXX
IsRoute(e) == e.ctx = "from-trunk" /\ e.body[1].val = "Inbound call to DID "
InFromTrunk(e) == e.ctx = "from-trunk"
OverridePats ==
    LET es == EntriesWhere(IsOverride) IN [i \in 1..Len(es) |-> es[i].pat]
FromTrunkPats ==
    LET es == EntriesWhere(InFromTrunk) IN [i \in 1..Len(es) |-> es[i].pat]
Strings == {Ext100, Ext1001, Ext1002, Ext200}

\* the extensions with a forward rule
Forwarded == {forwards[i].extension : i \in 1..Len(forwards)}
\* the extensions whose mailbox's ring timeout, None read as 20, is not 20
CustomRing ==
    {ext \in Strings :
        /\ LastOf(mailboxes, ext) # 0
        /\ mailboxes[LastOf(mailboxes, ext)].ring_timeout \notin {NoneInt, 20}}
\* the same, None and 0 read as 20
CustomRingNonZero ==
    {ext \in Strings :
        /\ LastOf(mailboxes, ext) # 0
        /\ mailboxes[LastOf(mailboxes, ext)].ring_timeout \notin {NoneInt, 0, 20}}
Ascending(pats) ==
    \A i, j \in 1..Len(pats) : i < j => StrLess(pats[i], pats[j])
Range(f) == {f[i] : i \in 1..Len(f)}

---------------------------------------------------------------------------
(* C5 as stated: the extensions with an override entry are those with a     *)
(* forward rule and those whose mailbox ring timeout, an absent one read as *)
(* 20, is not 20; one entry each, in ascending order of the string.         *)
C5_OverrideSet_AsStated ==
    phase = "generated"
    => /\ Range(OverridePats) = Forwarded \cup CustomRing
       /\ Ascending(OverridePats)

(* C5 as amended: the same, with an absent or zero ring timeout read as 20. *)
C5_OverrideSet ==
    phase = "generated"
    => /\ Range(OverridePats) = Forwarded \cup CustomRingNonZero
       /\ Ascending(OverridePats)

C5_Witness ==
    /\ phase = "generated"
    /\ OverridePats = <<Ext100, Ext1001, Ext200>>
    /\ Ext100 \notin Forwarded
    /\ Len(forwards) = 2 /\ forwards[1].extension = Ext200
    /\ Len(mailboxes) = 2
    /\ \E i \in 1..2 : mailboxes[i].ring_timeout = 0

(* C6: the outbound map has an entry for exactly the extensions routes lead *)
(* to; the route selected is the first route of the extension whose DID is  *)
(* the peer's non-empty outbound_cid when there is one, else the first      *)
(* route of the extension; it always leads to that extension.               *)
C6_OutboundSelection ==
    phase = "mapped"
    => /\ {outbound[i].ext : i \in 1..Len(outbound)}
          = {routes[i].destination_extension : i \in 1..Len(routes)}
       /\ \A i, j \in 1..Len(outbound) :
             outbound[i].ext = outbound[j].ext => i = j
       /\ \A k \in 1..Len(outbound) :
             LET ext == outbound[k].ext
                 p == LastOf(peers, ext)
                 cid == IF p = 0 THEN NoneStr ELSE peers[p].outbound_cid
                 hits == {i \in RoutesTo(ext) : routes[i].did = cid}
             IN /\ outbound[k].route.destination_extension = ext
                /\ outbound[k].route =
                      IF cid \notin {NoneStr, <<>>} /\ hits # {}
                      THEN routes[Least(hits)]
                      ELSE routes[Least(RoutesTo(ext))]

C6_Witness ==
    /\ phase = "mapped"
    /\ Len(routes) = 3
    /\ routes[1].destination_extension = Ext1001 /\ routes[1].did = Did4912340
    /\ routes[2].destination_extension = Ext1002 /\ routes[2].did = Did4912341
    /\ routes[3].destination_extension = Ext1001 /\ routes[3].did = Did4912341
    /\ peers # <<>>
    /\ peers[1].extension = Ext1001 /\ peers[1].outbound_cid = Did4912341
    /\ outbound[1].route = routes[3]
    /\ outbound[2].route = routes[2]

(* C7: the dial logic of the _1XXX entry and of every override entry holds  *)
(* no Answer(); that of every inbound route's entry holds Answer() followed *)
(* by Wait(0.5) ahead of every Dial of the entry.                           *)
C7_EarlyAnswerOnlyInbound ==
    phase = "generated"
    => \A k \in 1..Len(config) :
          LET e == config[k]
              n == Len(e.body)
          IN /\ (IsGeneric(e) \/ IsOverride(e))
                => \A i \in 1..n : e.body[i].app # "Answer"
             /\ IsRoute(e)
                => \E i \in 1..n - 1 :
                      /\ e.body[i] = Answer
                      /\ e.body[i + 1] = Wait
                      /\ \A j \in 1..n : e.body[j].app = "Dial" => j > i + 1

C7_Witness ==
    /\ phase = "generated"
    /\ HasForward(Ext1001, "unconditional")
    /\ \E k \in 1..Len(config) : IsOverride(config[k]) /\ config[k].pat = Ext1001
    /\ \E k \in 1..Len(config) :
          /\ IsRoute(config[k])
          /\ \E i \in 1..Len(config[k].body) :
                config[k].body[i] = DialTrunk(Dest0171, 30)
    /\ \E i \in 1..Len(routes) : routes[i].destination_extension = Ext1002

(* C8: the from-trunk context never holds two entries with the same DID     *)
(* pattern, also when two routes of the input have the same DID.            *)
C8_NoDuplicateDid ==
    phase = "generated"
    => \A i, j \in 1..Len(FromTrunkPats) :
          FromTrunkPats[i] = FromTrunkPats[j] => i = j

(* C10: with no route the from-trunk context is the s entry, the _X. entry  *)
(* that hangs up at once and the _[+0-9]. entry that hangs up, and there is *)
(* no outbound section; with a route there is no _X. entry.  In both cases  *)
(* the _[+0-9]. entry is the last one, after every route's entry.           *)
C10_CatchAll ==
    phase = "generated"
    => LET ft == EntriesWhere(InFromTrunk)
           n == Len(ft)
       IN /\ routes = <<>>
             => /\ FromTrunkPats = <<PatS, PatX, PatCatchAll>>
                /\ Len(ft[2].body) = 2 /\ ft[2].body[2] = Hangup
                /\ \A k \in 1..Len(config) : config[k].pat \notin {Pat0X, PatPlusX}
          /\ routes # <<>>
             => /\ PatX \notin Range(FromTrunkPats)
                /\ Len(EntriesWhere(IsRoute)) = Len(routes)
          /\ ft[n] = config[Len(config)]
          /\ ft[n].pat = PatCatchAll
          /\ ft[n].body[Len(ft[n].body)] = Hangup
          /\ \A i \in 1..n - 1 : ft[i].pat # PatCatchAll
          /\ ft[1].pat = PatS

C10_Witness ==
    /\ phase = "generated"
    /\ routes = <<>>
    /\ forwards # <<>>
    /\ mailboxes # <<>>
    /\ FromTrunkPats = <<PatS, PatX, PatCatchAll>>

---------------------------------------------------------------------------
(* C11: write_extensions_config and reload_dialplan never raise to their    *)
(* caller; they return False on any failure (an exception in generation,    *)
(* makedirs, open, write or the reload command, or a non-zero exit status)  *)
(* and True only when the step completed.  When generation raises, the file *)
(* is neither opened nor modified.                                          *)
C11_NeverRaises ==
    /\ io.raised = ""
    /\ io.pc \in {"returned", "reloaded"}
       => /\ io.ret \in {"True", "False"}
          /\ io.ret = "True" <=> io.fault = ""
          /\ io.ret = "True" => io.file = "new" /\ routes # NoneList
    /\ (routes = NoneList /\ io.pc # "generate")
       => io.ret = "False" /\ ~io.opened /\ io.file = io.before
    /\ io.pc = "reloaded"
       => /\ io.reloaded \in {"True", "False"}
          /\ io.reloaded = "True" <=> io.exit = "0"

C11_Witness ==
    /\ io.pc = "reloaded"
    /\ routes = NoneList
    /\ io.fault = "generate"
    /\ io.ret = "False"
    /\ io.before = "old"
    /\ io.exit = "raises"

---------------------------------------------------------------------------
(* What C12 speaks of *)

\* the ring timeout of the extension's mailbox, read as 20 when it is in
\* `absent` or when there is no mailbox
MailboxRing(ext, absent) ==
    LET k == LastOf(mailboxes, ext)
    IN IF k = 0 THEN 20
       ELSE IF mailboxes[k].ring_timeout \in absent THEN 20
       ELSE mailboxes[k].ring_timeout
DialsOf(e) == {i \in 1..Len(e.body) : e.body[i].app = "Dial"}
DeviceDialsOf(e) == {i \in DialsOf(e) : e.body[i].via = ""}
\* the entry dials the device of ext once, for the no_answer forward's ring
\* time or else for mr; with an unconditional forward its only Dial is to
\* the forward's destination, for mr
RingResolved(e, ext, mr) ==
    IF HasForward(ext, "unconditional")
    THEN /\ Cardinality(DialsOf(e)) = 1
         /\ \A i \in DialsOf(e) :
               /\ e.body[i].via = "trunk"
               /\ e.body[i].target
                     = ActiveForward(ext, "unconditional").destination
               /\ e.body[i].secs = mr
    ELSE /\ Cardinality(DeviceDialsOf(e)) = 1
         /\ \A i \in DeviceDialsOf(e) :
               /\ e.body[i].target = ext
               /\ e.body[i].secs =
                     IF HasForward(ext, "no_answer")
                     THEN ActiveForward(ext, "no_answer").ring_time
                     ELSE mr
\* every entry resolves its ring time, a mailbox ring timeout in `absent`
\* read as 20
RingTimesResolved(absent) ==
    LET rs == EntriesWhere(IsRoute)
    IN /\ \A k \in 1..Len(config) :
             LET e == config[k]
             IN /\ IsGeneric(e)
                   => /\ Cardinality(DeviceDialsOf(e)) = 1
                      /\ \A i \in DeviceDialsOf(e) :
                            e.body[i] = DialDevice(ExtenVar, 20)
                /\ IsOverride(e)
                   => RingResolved(e, e.pat, MailboxRing(e.pat, absent))
       /\ Len(rs) = Len(routes)
       /\ \A k \in 1..Len(rs) :
             LET ext == routes[k].destination_extension
             IN RingResolved(rs[k], ext, MailboxRing(ext, absent))

---------------------------------------------------------------------------
(* C12 as stated: the Dial to the device rings for 20 s in the _1XXX entry; *)
(* in an override entry and in a route's entry for the no_answer forward's  *)
(* ring_time when there is one, else for the mailbox's ring timeout, else   *)
(* for 20 s when there is no mailbox or it has no ring timeout.  With an    *)
(* unconditional forward the Dial to its destination rings for the mailbox  *)
(* ring timeout (or 20 s), never for the no_answer forward's ring time.     *)
C12_RingTime_AsStated ==
    phase = "generated" => RingTimesResolved({NoneInt})

(* C12 as amended: the same, a mailbox ring timeout of 0 counting as none.  *)
C12_RingTime ==
    phase = "generated" => RingTimesResolved({NoneInt, 0})

C12_Witness ==
    /\ phase = "generated"
    /\ Len(forwards) = 2
    /\ forwards[1].forward_type = "no_answer" /\ forwards[1].ring_time = 15
    /\ forwards[2].forward_type = "no_answer" /\ forwards[2].ring_time = 25
    /\ mailboxes = <<[extension |-> Ext1001, ring_timeout |-> 30]>>
    /\ Len(routes) = 2
    /\ routes[1].destination_extension = Ext1002
    /\ routes[2].destination_extension = Ext1001
    /\ \E i \in 1..Len(config[Len(config) - 1].body) :
          config[Len(config) - 1].body[i] = DialDevice(Ext1001, 25)

---------------------------------------------------------------------------
(* What C13 speaks of *)

OutboundPats == {Pat0X, PatPlusX}
OutboundExts == {outbound[i].ext : i \in 1..Len(outbound)}
\* the pai of the extension's peer, none without a peer
PeerPai(ext) ==
    LET k == LastOf(peers, ext)
    IN IF k = 0 THEN NoneStr ELSE peers[k].pai
\* the sip_server of the trunk with this id, localhost without such a trunk
PaiDomain(tid) ==
    LET at == {i \in 1..Len(trunks) : trunks[i].id = tid}
    IN IF at = {} THEN Localhost ELSE trunks[CHOOSE i \in at : TRUE].sip_server
PaiSets(body) ==
    {j \in 1..Len(body) : /\ body[j].app = "Set"
                          /\ body[j].var = "PJSIP_HEADER(add,P-Asserted-Identity)"}
\* the lines of the block that starts at line j, up to its Hangup
BlockAt(body, j) ==
    LET ends == {h \in j..Len(body) : body[h].app = "Hangup"}
    IN IF ends = {} THEN <<>>
       ELSE SubSeq(body, j + 1, CHOOSE h \in ends : \A g \in ends : h <= g)
\* one test on the endpoint and one block for the extension in the entry
OutboundBlockOk(body, info) ==
    LET ext == info.ext
        route == info.route
        pai == PeerPai(ext)
        tests == {j \in 1..Len(body) : /\ body[j].app = "GotoIf"
                                       /\ body[j].var = "CHANNEL(endpoint)"
                                       /\ body[j].target = ext}
        starts == {j \in 1..Len(body) : body[j].label = OutLabel(ext)}
    IN /\ Cardinality(tests) = 1
       /\ \A j \in tests : body[j].yes = OutLabel(ext) /\ body[j].no = NoLabel
       /\ Cardinality(starts) = 1
       /\ \A j \in starts :
             BlockAt(body, j) =
                <<SetCallerIdNum(route.did)>>
                \o (IF pai \notin {NoneStr, <<>>}
                    THEN <<SetPai(pai, PaiDomain(route.trunk_id))>> ELSE <<>>)
                \o <<DialTrunkEp(route.trunk_id, 120), Hangup>>
\* the lines the call ran, in order
RanSeq == [k \in 1..Len(chan.path) |-> lines[chan.path[k]]]
DialsRun == SelectSeq(RanSeq, LAMBDA l : l.app = "Dial")

---------------------------------------------------------------------------
(* C13: with a non-empty outbound map each of _0X. and _+X. has, for every  *)
(* extension of the map, one test on the endpoint that jumps to out-<ext>   *)
(* and one block out-<ext> that sets CALLERID(num) to the selected route's  *)
(* DID, sets P-Asserted-Identity iff the peer's pai is non-empty (domain:   *)
(* the sip_server of the route's trunk, localhost without a trunk record),  *)
(* dials through trunk-ep-<trunk_id> for 120 s and hangs up.  A call from   *)
(* an endpoint outside the map runs Playback(ss-noservice), then Hangup(),  *)
(* and no Dial; a call from an endpoint of the map dials its trunk once.    *)
C13_OutboundBlocks ==
    /\ (phase # "input" /\ outbound # <<>>)
       => \A pat \in OutboundPats :
             LET es == {k \in 1..Len(config) : config[k].pat = pat}
             IN /\ Cardinality(es) = 1
                /\ \A k \in es, i \in 1..Len(outbound) :
                      /\ config[k].ctx = "internal"
                      /\ OutboundBlockOk(config[k].body, outbound[i])
    /\ (phase = "call" /\ chan.end # "")
       => /\ chan.end = "hangup"
          /\ IF chan.endpoint \in OutboundExts
             THEN \E i \in 1..Len(outbound) :
                     /\ outbound[i].ext = chan.endpoint
                     /\ DialsRun
                           = <<DialTrunkEp(outbound[i].route.trunk_id, 120)>>
                     /\ SetCallerIdNum(outbound[i].route.did) \in Range(RanSeq)
             ELSE /\ DialsRun = <<>>
                  /\ Len(RanSeq) >= 2
                  /\ RanSeq[Len(RanSeq) - 1] = Fixed("Playback", "ss-noservice")
                  /\ RanSeq[Len(RanSeq)] = Hangup

C13_Witness ==
    /\ phase = "call"
    /\ chan.end = "hangup"
    /\ chan.endpoint = Ext1001
    /\ Len(routes) = 2
    /\ routes[1].did = Did4912340 /\ routes[1].trunk_id = 2
    /\ routes[2].did = Did4912341 /\ routes[2].trunk_id = 1
    /\ outbound = <<[ext |-> Ext1001, route |-> routes[2], pai |-> PaiAlice]>>
    /\ trunks # <<>>
    /\ SetPai(PaiAlice, SipA) \in Range(RanSeq)
    /\ DialsRun = <<DialTrunkEp(1, 120)>>

====
